---- MODULE Spec2Model ----
(***************************************************************************)
(* LinearClient.execute_query (src/src/linearator/api/client/client.py):   *)
(* the request pipeline of the Linear GraphQL client.  One logical call    *)
(* consults the response cache, acquires a rate-limit token, binds the     *)
(* shared GraphQL client and then loops over at most max_retries + 1 send  *)
(* attempts, classifying each transport outcome (payload, 401, 429, 5xx,   *)
(* other HTTP status, timeout, other exception).                           *)
(*                                                                         *)
(* RateLimiter and ResponseCache live in api/client/utils.py; they are     *)
(* modelled from their specification (sections 4.1 and 4.2).               *)
(***************************************************************************)
EXTENDS Integers, Sequences, FiniteSets, TLC

\* ------------------------------------------------------------------ bounds
MaxRetries == 2        \* config.max_retries ranges over 0..MaxRetries
MaxTime    == 2        \* the clock runs over 0..MaxTime

\* ------------------------------------------------- configuration under test
CacheTTL   == 2        \* config.cache_ttl, in clock ticks
Capacity   == 2        \* RateLimiter capacity, in tokens
RefillRate == 1        \* RateLimiter refill, in tokens per clock tick

\* ------------------------------------------------------- program constants
DefaultWait   == 60    \* wait_time = 60  # Default wait time
ServerErrorLo == 500   \* 500 <= status_code
ServerErrorHi == 600   \* status_code < 600
BackoffBase   == 2     \* wait_time = 2**attempt

Calls == {"A", "B"}    \* the logical calls (asyncio tasks) that may be in flight

VARIABLES
    max_retries,    \* self.config.max_retries
    cache_on,       \* self.cache is not None (enable_cache)
    cache,          \* ResponseCache entries: key -> entry
    now,            \* the clock read by ResponseCache and RateLimiter
    rate_limiter,   \* RateLimiter state: [tokens, lastRefill]
    access_token,   \* authenticator.get_access_token(): "none" or "valid"
    gql_client,     \* self._gql_client: None, or the headers it was built with
    transport,      \* self._transport: None, or the headers it was built with
    call,           \* per logical call: the locals of execute_query
    obs,            \* per logical call: what the call has done so far
    meter,          \* the rate limiter's books, kept where it is under study
    report,         \* per task: what test_connection() returned or raised
    config,         \* cli_ctx.config: default_team_key and default_team_id
    command         \* the run of `team switch`: its argument and how it ended

vars == <<max_retries, cache_on, cache, now, rate_limiter, access_token,
          gql_client, transport, call, obs, meter, report, config, command>>

\* --------------------------------------------------------------- queries
\* A query is its text and its variables in the order the caller inserted
\* them (a Python dict keeps insertion order).
Queries ==
    { [text |-> "teams",  variables |-> << <<"first", 1>>, <<"after", 2>> >>],
      [text |-> "teams",  variables |-> << <<"after", 2>>, <<"first", 1>> >>],
      [text |-> "viewer", variables |-> << >>] }

\* The first query with another value for one variable.
OtherValueQuery ==
    [text |-> "teams", variables |-> << <<"first", 2>>, <<"after", 2>> >>]
AllQueries == Queries \cup {OtherValueQuery}

Payloads == {"empty", "p1", "p2"}      \* "empty" is the falsy payload {}
None     == "None"

Truthy(result) == result \notin {None, "empty"}

\* ------------------------------------------------- ResponseCache (utils.py)
\* The variables of a query as a name -> value mapping: what is left of the
\* insertion order once the key is derived.
VarNames(q)   == { q.variables[i][1] : i \in 1..Len(q.variables) }
VarValue(q, n) ==
    LET i == CHOOSE j \in 1..Len(q.variables) : q.variables[j][1] = n
    IN  q.variables[i][2]
Mapping(q) == [ n \in VarNames(q) |-> VarValue(q, n) ]

\* CacheKey: a deterministic digest of the query text and the variable mapping.
CacheKeyInsertionOrder(q) == <<q.text, q.variables>>
CacheKey(q) == <<q.text, Mapping(q)>>

CacheKeys  == { CacheKey(q) : q \in AllQueries }
NoEntry    == [value |-> None, storedAt |-> 0]
EmptyCache == [ k \in CacheKeys |-> NoEntry ]

\* An entry is served while now - storedAt < ttl.
FreshAtExpiry(entry, t) == entry.value # None /\ t - entry.storedAt <= CacheTTL
Fresh(entry, t) == entry.value # None /\ t - entry.storedAt < CacheTTL

\* ResponseCache.get(query, variables): the stored value, or None.
CacheGet(ch, q, t) ==
    IF Fresh(ch[CacheKey(q)], t) THEN ch[CacheKey(q)].value ELSE None

\* ResponseCache.set(query, variables, value): store or overwrite.
CacheSetIfAbsent(ch, q, value, t) ==
    IF ch[CacheKey(q)].value # None THEN ch
    ELSE [ch EXCEPT ![CacheKey(q)] = [value |-> value, storedAt |-> t]]
CacheSet(ch, q, value, t) ==
    [ch EXCEPT ![CacheKey(q)] = [value |-> value, storedAt |-> t]]

\* ResponseCache.clear(): evict every entry.
CacheClearOldest(ch) ==
    [k \in CacheKeys |-> IF ch[k].storedAt = 0 THEN NoEntry ELSE ch[k]]
CacheClear(ch) == EmptyCache

\* --------------------------------------------------- RateLimiter (utils.py)
Min(a, b) == IF a < b THEN a ELSE b

\* Lazy refill at an acquire attempt: elapsed * refillRate, capped at capacity.
RefillNever(rl, t) == [rl EXCEPT !.lastRefill = t]
RefillUncapped(rl, t) ==
    [tokens     |-> rl.tokens + (t - rl.lastRefill) * RefillRate,
     lastRefill |-> t]
Refill(rl, t) ==
    [tokens     |-> Min(Capacity, rl.tokens + (t - rl.lastRefill) * RefillRate),
     lastRefill |-> t]

\* One token is spent by the caller that returns from acquire().
SpendTwo(rl) == [rl EXCEPT !.tokens = @ - 2]
SpendNothing(rl) == rl
Spend(rl) == [rl EXCEPT !.tokens = @ - 1]

\* ------------------------------------------------------ transport outcomes
\* A Retry-After header value is a string; a character is a digit 0..9 or
\* NonDigit.  int() accepts a non-empty string of digits.
NonDigit == 10
RetryAfterAbsent == [present |-> FALSE, text |-> << >>]
RetryAfterHeaders ==
    { RetryAfterAbsent,
      [present |-> TRUE, text |-> <<2>>],        \* Retry-After: 2
      [present |-> TRUE, text |-> <<1, 0>>],     \* Retry-After: 10
      [present |-> TRUE, text |-> << >>],        \* Retry-After: (empty)
      [present |-> TRUE, text |-> <<NonDigit>>] }  \* an HTTP-date, say

IsInt(text) == Len(text) > 0 /\ \A i \in 1..Len(text) : text[i] \in 0..9

RECURSIVE IntOf(_)
IntOf(text) ==
    IF text = << >> THEN 0
    ELSE 10 * IntOf(SubSeq(text, 1, Len(text) - 1)) + text[Len(text)]

Statuses == {401, 404, 429, 503}

\* str(e) of an exception, word by word, and what lower() makes of a word.
Descriptions ==
    { <<"Request", "Timeout">>,
      <<"Cannot", "connect", "to", "host">>,
      << >> }                       \* str(asyncio.TimeoutError()) is empty
Lower(word) ==
    CASE word = "Request" -> "request"
      [] word = "Timeout" -> "timeout"
      [] word = "Cannot"  -> "cannot"
      [] OTHER            -> word

\* "timeout" in str(e).lower()
MentionsTimeoutCaseSensitive(text) == \E i \in 1..Len(text) : text[i] = "timeout"
MentionsTimeout(text) == \E i \in 1..Len(text) : Lower(text[i]) = "timeout"

\* What one client.execute_async() can end in.
Outcomes ==
    { [k |-> "ok", payload |-> p] : p \in Payloads }
    \cup { [k |-> "http", status |-> s, retry_after |-> RetryAfterAbsent]
             : s \in Statuses }
    \cup { [k |-> "http", status |-> 429, retry_after |-> h]
             : h \in RetryAfterHeaders }
    \cup { [k |-> "transport", text |-> t] : t \in Descriptions }
                                    \* TransportError without a response
    \cup { [k |-> "exception", text |-> t] : t \in Descriptions }
                                    \* any other Exception

NoOutcome == [k |-> "none"]

\* What authenticator.refresh_token() can end in.
RefreshOutcomes == {"ok", "AuthenticationError", "Exception"}

\* ----------------------------------------------- execute_query: decisions
\* if use_cache and self.cache: (the cache is consulted)
UsesCacheFlagInverted(uc) == ~uc /\ cache_on
UsesCache(uc) == uc /\ cache_on

\* if use_cache and self.cache and result: (the result is stored)
ShouldCacheFlagIgnored(uc, result) == cache_on /\ Truthy(result)
ShouldCacheNever(uc, result) == FALSE
ShouldCache(uc, result) == uc /\ cache_on /\ Truthy(result)

\* for attempt in range(self.config.max_retries + 1)
LoopRangeOneMore == 0..(max_retries + 1)
LoopRange == 0..max_retries

\* if attempt < self.config.max_retries
AttemptsRemainOneLess(attempt) == attempt + 1 < max_retries
AttemptsRemainAlways(attempt) == TRUE
AttemptsRemain(attempt) == attempt < max_retries

\* if status_code == 401
IsUnauthorized(status) == status = 401

\* elif status_code == 429
IsRateLimited(status) == status = 429

\* elif 500 <= status_code < 600
IsServerErrorOnly500(status) == status = ServerErrorLo
IsServerErrorFrom400(status) == 400 <= status /\ status < ServerErrorHi
IsServerError(status) == ServerErrorLo <= status /\ status < ServerErrorHi

\* wait_time = 2**attempt
BackoffFromTwo(attempt) == BackoffBase ^ (attempt + 1)
Backoff(attempt) == BackoffBase ^ attempt

\* wait_time = 60; if "Retry-After" in headers: wait_time = int(headers[...])
RetryAfterWaitIgnored(h) == DefaultWait
RetryAfterWait(h) == IF h.present THEN IntOf(h.text) ELSE DefaultWait

\* int(...) raises ValueError on a header that is present and no integer
RetryAfterRaises(h) == h.present /\ ~IsInt(h.text)

\* What the handlers of one attempt decide: return the payload, refresh and
\* continue, sleep and continue, or raise.
Return_(p)        == [act |-> "return",   payload |-> p,    wait |-> 0,
                      error |-> "none", msg |-> "none", cause |-> "none"]
Reauth            == [act |-> "reauth",   payload |-> None, wait |-> 0,
                      error |-> "none", msg |-> "none", cause |-> "none"]
Sleep(w)          == [act |-> "sleep",    payload |-> None, wait |-> w,
                      error |-> "none", msg |-> "none", cause |-> "none"]
Raise(error, msg) == [act |-> "raise",    payload |-> None, wait |-> 0,
                      error |-> error,  msg |-> msg,    cause |-> "none"]
\* raise ... from e
RaiseFrom(error, msg, e) == [Raise(error, msg) EXCEPT !.cause = e]

\* self.authenticator.refresh_token() raised: an AuthenticationError is raised
\* anew by the handler, anything else reaches the outer except Exception
OnRefreshErrorWrapped(r) == Raise("LinearAPIError", "Unexpected error")
OnRefreshError(r) ==
    IF r = "AuthenticationError"
    THEN RaiseFrom("AuthenticationError", "Authentication failed",
                   "AuthenticationError")
    ELSE Raise("Exception", "refresh failed")

\* except TransportError as e, with e.response set
OnHttpError(o, r, attempt) ==
    IF IsUnauthorized(o.status) THEN
        IF r = "ok" THEN Reauth ELSE OnRefreshError(r)
    ELSE IF IsRateLimited(o.status) THEN
        IF RetryAfterRaises(o.retry_after)
        THEN Raise("ValueError", "invalid literal for int()")
        ELSE IF AttemptsRemain(attempt) THEN Sleep(RetryAfterWait(o.retry_after))
        ELSE Raise("RateLimitError", "Rate limit exceeded")
    ELSE IF IsServerError(o.status) /\ AttemptsRemain(attempt)
    THEN Sleep(Backoff(attempt))
    ELSE RaiseFrom("LinearAPIError", "Transport error", "TransportError")

\* except Exception as e
OnException(o, attempt) ==
    IF AttemptsRemain(attempt) /\ MentionsTimeout(o.text)
    THEN Sleep(Backoff(attempt))
    ELSE RaiseFrom("LinearAPIError", "Query execution failed", "Exception")

\* The body of one loop iteration, from the outcome of execute_async on.
Attempt(o, r, attempt) ==
    IF o.k = "ok" THEN Return_(o.payload)
    ELSE IF o.k = "http" THEN OnHttpError(o, r, attempt)
    ELSE IF o.k = "transport"
    THEN RaiseFrom("LinearAPIError", "Transport error", "TransportError")
    ELSE OnException(o, attempt)

\* asyncio.CancelledError derives from BaseException: no except Exception
\* clause catches it.
IsExceptionAlways(error) == TRUE
IsException(error) == error # "CancelledError"

\* The handlers of the outer try: AuthenticationError, RateLimitError and
\* LinearAPIError are raised again, any other Exception becomes
\* LinearAPIError("Unexpected error: ...") from e.
Taxonomy == {"AuthenticationError", "RateLimitError", "LinearAPIError"}
OuterExceptDropsCause(d) ==
    IF d.act = "raise" /\ d.error \notin Taxonomy /\ IsException(d.error)
    THEN Raise("LinearAPIError", "Unexpected error")
    ELSE d
OuterExceptPassesAll(d) == d
OuterExcept(d) ==
    IF d.act = "raise" /\ d.error \notin Taxonomy /\ IsException(d.error)
    THEN RaiseFrom("LinearAPIError", "Unexpected error", d.error)
    ELSE d

\* A cancellation is delivered to a call suspended at the await of position
\* pc: rate_limiter.acquire() stands before the outer try, execute_async in
\* the inner try, the sleeps in the handlers of the inner try.
Cancelled(pc) ==
    IF pc = "acquire" THEN Raise("CancelledError", "cancelled")
    ELSE IF pc = "send" /\ IsException("CancelledError")
    THEN OuterExcept(RaiseFrom("LinearAPIError", "Query execution failed",
                               "CancelledError"))
    ELSE OuterExcept(Raise("CancelledError", "cancelled"))

\* One loop iteration inside the outer try.
ClassifyErrorBodyAsPayload(o, r, attempt) ==
    IF o.k = "http" /\ o.status = 404 THEN Return_("p1")
    ELSE OuterExcept(Attempt(o, r, attempt))
Classify(o, r, attempt) == OuterExcept(Attempt(o, r, attempt))

\* The kind of an outcome, as the call's history records it.
Kind(o) ==
    IF o.k = "ok" THEN "ok"
    ELSE IF o.k = "http" THEN
        IF o.status = 401 THEN "401"
        ELSE IF o.status = 429 THEN "429"
        ELSE IF o.status >= 500 THEN "5xx" ELSE "4xx"
    ELSE IF o.k = "transport" THEN "transport"
    ELSE IF \E i \in 1..Len(o.text) : o.text[i] \in {"timeout", "Timeout"}
         THEN "timeout" ELSE "exception"

\* ------------------------------------------------------------ auth headers
\* The Authorization header of a client is "Bearer <token>" for the token the
\* authenticator held when the client was built.  A client is recorded by how
\* that token relates to the authenticator's token now: "fresh" (the same
\* token) or "stale" (a token that a later refresh replaced).

\* self._get_auth_headers(): the headers of a client built now
AuthHeaders == "fresh"

\* token = self.authenticator.get_access_token(); if not token: raise
TokenMissingNever == FALSE
TokenMissing == access_token = "none"

\* authenticator.refresh_token() replaced the token: what headers built from
\* the earlier token have become
Outdated(headers) == IF headers = None THEN None ELSE "stale"

\* After refresh_token(): self._gql_client = None; self._transport = None
SharedAfterRefreshKept(shared) == Outdated(shared)
SharedAfterRefresh(shared) == None

\* ------------------------------------------------ execute_query: the locals
NoQuery  == [text |-> "none", variables |-> << >>]
IdleCall == [pc |-> "idle", query |-> NoQuery, use_cache |-> FALSE, client |-> None,
             attempt |-> 0, result |-> None, error |-> "none", msg |-> "none",
             cause |-> "none"]
\* acquire() calls that returned, and tokens added by refills, so far
NoMeter  == [granted |-> 0, refilled |-> 0]
NoObs    == [sends |-> 0, refreshes |-> 0, acquired |-> 0, sleeps |-> 0,
             hit |-> FALSE, wrote |-> 0, hist |-> << >>, wait |-> 0,
             sentWith |-> None, last |-> NoOutcome, refresh |-> "none",
             cancelled |-> "no"]

\* test_connection() has not returned
NoReport == [returned |-> FALSE, success |-> FALSE, user |-> "none",
             error |-> "none", message |-> "none", raised |-> "none"]

\* No default team is stored; no `team switch` has been run.
NoDefaultTeam == [default_team_key |-> None, default_team_id |-> None]
NoCommand     == [team_identifier |-> "none", status |-> "none"]

\* return result / raise error: the call is over
Finished(cl, result, error, msg) ==
    [cl EXCEPT !.pc = "done", !.result = result, !.error = error, !.msg = msg]

\* result = await client.execute_async(...): the local client sends
Sending(cl, attempt) == [cl EXCEPT !.pc = "send", !.attempt = attempt]
SendObs(ob, cl) == [ob EXCEPT !.sends = @ + 1, !.sentWith = cl.client]

\* continue: the next iteration of the for loop, or the statement after it
ContinueSameAttempt(cl) == Sending(cl, cl.attempt)
Continue(cl) ==
    IF cl.attempt + 1 \in LoopRange
    THEN Sending(cl, cl.attempt + 1)
    ELSE Finished(cl, None, "LinearAPIError", "Max retries exceeded")
ContinueObs(ob, cl) ==
    IF cl.attempt + 1 \in LoopRange THEN SendObs(ob, cl) ELSE ob

\* ----------------------------------------------------------------- actions
Init ==
    /\ max_retries \in 0..MaxRetries
    /\ cache_on \in BOOLEAN
    /\ cache = EmptyCache
    /\ now = 0
    /\ rate_limiter = [tokens |-> Capacity, lastRefill |-> 0]
    /\ access_token \in {"none", "valid"}
    /\ gql_client = None
    /\ transport = None
    /\ call = [c \in Calls |-> IdleCall]
    /\ obs = [c \in Calls |-> NoObs]
    /\ meter = NoMeter
    /\ report = [c \in Calls |-> NoReport]
    /\ config = NoDefaultTeam
    /\ command = NoCommand

\* execute_query(query, variables, use_cache) is called: the cache check.
Start(c, q, uc) ==
    /\ call[c].pc = "idle"
    /\ LET cl  == [IdleCall EXCEPT !.query = q, !.use_cache = uc]
           got == CacheGet(cache, q, now)
       IN  IF UsesCache(uc) /\ got # None
           THEN /\ call' = [call EXCEPT ![c] = Finished(cl, got, "none", "none")]
                /\ obs' = [obs EXCEPT ![c] = [NoObs EXCEPT !.hit = TRUE]]
           ELSE /\ call' = [call EXCEPT ![c] = [cl EXCEPT !.pc = "acquire"]]
                /\ obs' = [obs EXCEPT ![c] = NoObs]
    /\ UNCHANGED <<config, command, report, meter, max_retries, cache_on, cache, now, rate_limiter, access_token,
                   gql_client, transport>>

\* await self.rate_limiter.acquire(), then self._get_gql_client() and the
\* first send.  Without a token the caller stays suspended in acquire().
\* The limiter's books are left to the specification that runs the action.
Acquire(c) ==
    /\ call[c].pc = "acquire"
    /\ LET rl == Refill(rate_limiter, now)
       IN  IF rl.tokens < 1
           THEN /\ rate_limiter' = rl
                /\ UNCHANGED <<gql_client, transport, call, obs>>
           ELSE /\ rate_limiter' = Spend(rl)
                /\ IF gql_client = None /\ TokenMissing
                   THEN \* _get_auth_headers raises: no valid access token
                        /\ call' = [call EXCEPT ![c] =
                               Finished(@, None, "AuthenticationError",
                                        "No valid access token")]
                        /\ obs' = [obs EXCEPT ![c].acquired = @ + 1]
                        /\ UNCHANGED <<gql_client, transport>>
                   ELSE LET bound == IF gql_client = None THEN AuthHeaders
                                     ELSE gql_client
                            cl == Sending([call[c] EXCEPT !.client = bound], 0)
                        IN  /\ gql_client' = bound
                            /\ transport' = IF gql_client = None THEN AuthHeaders
                                            ELSE transport
                            /\ call' = [call EXCEPT ![c] = cl]
                            /\ obs' = [obs EXCEPT ![c] =
                                   SendObs([@ EXCEPT !.acquired = @ + 1], cl)]
    /\ UNCHANGED <<config, command, report, max_retries, cache_on, cache, now, access_token>>

\* client.execute_async() ends in outcome o; on a 401 refresh_token() ends in r.
Respond(c, o, r) ==
    /\ call[c].pc = "send"
    /\ r = "ok" \/ (o.k = "http" /\ o.status = 401)
    /\ LET cl == call[c]
           d  == Classify(o, r, cl.attempt)
           ob == [obs[c] EXCEPT !.hist = Append(@, Kind(o)),
                                !.last = o,
                                !.refreshes = IF Kind(o) = "401" THEN @ + 1 ELSE @,
                                !.refresh = IF Kind(o) = "401" THEN r ELSE @]
       IN  CASE d.act = "return" ->
                 /\ IF ShouldCache(cl.use_cache, d.payload)
                    THEN /\ cache' = CacheSet(cache, cl.query, d.payload, now)
                         /\ obs' = [obs EXCEPT ![c] = [ob EXCEPT !.wrote = @ + 1]]
                    ELSE /\ cache' = cache
                         /\ obs' = [obs EXCEPT ![c] = ob]
                 /\ call' = [call EXCEPT ![c] = Finished(cl, d.payload, "none", "none")]
                 /\ UNCHANGED <<access_token, gql_client, transport>>
            [] d.act = "reauth" ->
                 \* refresh_token() stored a new token: every client built
                 \* before it is outdated; the shared client is reset
                 /\ access_token' = "valid"
                 /\ gql_client' = SharedAfterRefresh(gql_client)
                 /\ transport' = SharedAfterRefresh(transport)
                 /\ LET held == [x \in Calls |->
                                  [call[x] EXCEPT !.client = Outdated(@)]]
                    IN  /\ call' = [held EXCEPT ![c] = Continue(@)]
                        /\ obs' = [obs EXCEPT ![c] = ContinueObs(ob, held[c])]
                 /\ UNCHANGED cache
            [] d.act = "sleep" ->
                 /\ call' = [call EXCEPT ![c].pc = "sleep"]
                 /\ obs' = [obs EXCEPT ![c] =
                        [ob EXCEPT !.sleeps = @ + 1, !.wait = d.wait]]
                 /\ UNCHANGED <<cache, access_token, gql_client, transport>>
            [] d.act = "raise" ->
                 /\ call' = [call EXCEPT ![c] =
                        [Finished(cl, None, d.error, d.msg) EXCEPT !.cause = d.cause]]
                 /\ obs' = [obs EXCEPT ![c] = ob]
                 /\ UNCHANGED <<cache, access_token, gql_client, transport>>
    /\ UNCHANGED <<config, command, report, meter, max_retries, cache_on, now, rate_limiter>>

\* await asyncio.sleep(wait_time) returns; continue.
Wake(c) ==
    /\ call[c].pc = "sleep"
    /\ call' = [call EXCEPT ![c] = Continue(@)]
    /\ obs' = [obs EXCEPT ![c] = ContinueObs(@, call[c])]
    /\ UNCHANGED <<config, command, report, meter, max_retries, cache_on, cache, now, rate_limiter, access_token,
                   gql_client, transport>>

\* The caller takes the result or the error; the task is free for a new call.
Done(c) ==
    /\ call[c].pc = "done"
    /\ call' = [call EXCEPT ![c] = IdleCall]
    /\ obs' = [obs EXCEPT ![c] = NoObs]
    /\ UNCHANGED <<config, command, report, meter, max_retries, cache_on, cache, now, rate_limiter, access_token,
                   gql_client, transport>>

\* The task of call c is cancelled while it is suspended at an await.
Cancel(c) ==
    /\ call[c].pc \in {"acquire", "send", "sleep"}
    /\ LET d == Cancelled(call[c].pc)
       IN  call' = [call EXCEPT ![c] =
                       [Finished(@, None, d.error, d.msg) EXCEPT !.cause = d.cause]]
    /\ obs' = [obs EXCEPT ![c].cancelled = call[c].pc]
    /\ UNCHANGED <<config, command, report, meter, max_retries, cache_on, cache, now, rate_limiter,
                   access_token, gql_client, transport>>

\* close(): if self.cache: self.cache.clear()
Close ==
    /\ cache_on
    /\ cache' = CacheClear(cache)
    /\ UNCHANGED <<config, command, report, meter, max_retries, cache_on, now, rate_limiter, access_token,
                   gql_client, transport, call, obs>>

\* Time passes.
Tick ==
    /\ now < MaxTime
    /\ now' = now + 1
    /\ UNCHANGED <<config, command, report, meter, max_retries, cache_on, cache, rate_limiter, access_token,
                   gql_client, transport, call, obs>>

\* One caller: logical calls are issued one after the other.
Next ==
    \/ \E q \in Queries, uc \in BOOLEAN : Start("A", q, uc)
    \/ Acquire("A") /\ UNCHANGED meter
    \/ \E o \in Outcomes, r \in RefreshOutcomes : Respond("A", o, r)
    \/ Wake("A")
    \/ Done("A")
    \/ Close
    \/ Tick

Spec == Init /\ [][Next]_vars

\* ----------------------------------------------- two callers and the cache
\* Two tasks share the client and its cache; every call uses the cache and
\* every send is answered with a payload.
InitCache ==
    /\ Init
    /\ max_retries = 0
    /\ cache_on
    /\ access_token = "valid"

CacheOutcomes == { [k |-> "ok", payload |-> p] : p \in {"p1", "p2"} }

NextCache ==
    \/ \E c \in Calls, q \in AllQueries : Start(c, q, TRUE)
    \/ \E c \in Calls : Acquire(c) /\ UNCHANGED meter
    \/ \E c \in Calls, o \in CacheOutcomes : Respond(c, o, "ok")
    \/ \E c \in Calls : Done(c)
    \/ Close
    \/ Tick

SpecCache == InitCache /\ [][NextCache]_vars

\* ---------------------------------------- two callers and the rate limiter
\* Two tasks issue uncached calls one after the other, each answered with a
\* payload at its first send; the limiter's books are kept.
InitLimiter ==
    /\ Init
    /\ max_retries = 0
    /\ ~cache_on
    /\ access_token = "valid"

LimiterQuery    == [text |-> "viewer", variables |-> << >>]
LimiterOutcomes ==
    { [k |-> "ok", payload |-> "p1"],
      [k |-> "http", status |-> 404, retry_after |-> RetryAfterAbsent] }

\* The books after an acquire attempt of c: what the refill added, and one
\* more return when c got through.
Metered(c) ==
    meter' = [granted  |-> meter.granted
                             + (IF call'[c].pc # "acquire" THEN 1 ELSE 0),
              refilled |-> meter.refilled
                             + (Refill(rate_limiter, now).tokens
                                  - rate_limiter.tokens)]

NextLimiter ==
    \/ \E c \in Calls : Start(c, LimiterQuery, FALSE)
    \/ \E c \in Calls : Acquire(c) /\ Metered(c)
    \/ \E c \in Calls, o \in LimiterOutcomes : Respond(c, o, "ok")
    \/ \E c \in Calls : Done(c)
    \/ Tick

SpecLimiter == InitLimiter /\ [][NextLimiter]_vars

\* ------------------------------------------ two callers with retries
\* Two tasks share the client; their calls ask for the same query, through
\* the cache or past it, and may be answered 401, 429 or 503 and retried
\* once, or cancelled.
InitPair ==
    /\ Init
    /\ max_retries = 1
    /\ cache_on
    /\ access_token = "valid"

PairQuery    == [text |-> "viewer", variables |-> << >>]
PairOutcomes ==
    { [k |-> "ok", payload |-> p] : p \in {"p1", "p2"} }
    \cup { [k |-> "http", status |-> s, retry_after |-> RetryAfterAbsent]
             : s \in {401, 429, 503} }

\* await asyncio.sleep(wait_time) suspends the sleeping task only: the event
\* loop runs the other tasks meanwhile.
SleepBlocksTheLoop == \E x \in Calls : call[x].pc = "sleep"
SleepBlocks == FALSE
Runnable(c) == call[c].pc = "sleep" \/ ~SleepBlocks

NextPair ==
    \/ \E c \in Calls, uc \in BOOLEAN : Runnable(c) /\ Start(c, PairQuery, uc)
    \/ \E c \in Calls : Runnable(c) /\ Acquire(c) /\ Metered(c)
    \/ \E c \in Calls, o \in PairOutcomes : Runnable(c) /\ Respond(c, o, "ok")
    \/ \E c \in Calls : Runnable(c) /\ Wake(c)
    \/ \E c \in Calls : Runnable(c) /\ Cancel(c)
    \/ \E c \in Calls : Runnable(c) /\ Done(c)
    \/ Tick

SpecPair == InitPair /\ [][NextPair]_vars

\* ------------------------------------------------- time without a horizon
\* Time passes when the clock stands at MaxTime: the clock keeps its value
\* and every timestamp moves one tick into the past.  A timestamp that is
\* MaxTime old stays so, which changes neither a refill (MaxTime * RefillRate
\* >= Capacity) nor the freshness of an entry (MaxTime >= CacheTTL).
Earlier(t) == IF t > 0 THEN t - 1 ELSE 0

TickAtHorizon ==
    /\ now = MaxTime
    /\ rate_limiter' = [rate_limiter EXCEPT !.lastRefill = Earlier(@)]
    /\ cache' = [k \in CacheKeys |->
                    IF cache[k].value = None THEN cache[k]
                    ELSE [cache[k] EXCEPT !.storedAt = Earlier(@)]]
    /\ UNCHANGED <<config, command, report, meter, max_retries, cache_on, now, access_token, gql_client,
                   transport, call, obs>>

\* The two callers of the limiter with time going on for ever.  The clock
\* advances, and the event loop resumes a caller suspended in acquire() that
\* can get a token again and again: it is not passed over for ever by a
\* caller that arrives later.
NextLimiterLive ==
    \/ \E c \in Calls : Start(c, LimiterQuery, FALSE)
    \/ \E c \in Calls : Acquire(c) /\ UNCHANGED meter
    \/ \E c \in Calls, o \in LimiterOutcomes : Respond(c, o, "ok")
    \/ \E c \in Calls : Done(c)
    \/ Tick
    \/ TickAtHorizon

TimeAdvances == WF_vars(Tick \/ TickAtHorizon)

SpecLimiterLive ==
    /\ InitLimiter /\ [][NextLimiterLive]_vars
    /\ TimeAdvances
    /\ \A c \in Calls : SF_vars(Acquire(c) /\ UNCHANGED meter)

\* ------------------------------------------- calls that run to their end
\* One task issues uncached calls for ever, answered in every way the retry
\* policy tells apart.  Time goes on, acquire() returns to a caller that can
\* get a token again and again, every send and every refresh ends in some
\* outcome, and every sleep returns.
InitLive ==
    /\ Init
    /\ ~cache_on
    /\ access_token = "valid"

LiveOutcomes ==
    { [k |-> "ok", payload |-> "p1"],
      [k |-> "exception", text |-> <<"Request", "Timeout">>] }
    \cup { [k |-> "http", status |-> s, retry_after |-> RetryAfterAbsent]
             : s \in Statuses }

NextLive ==
    \/ Start("A", LimiterQuery, FALSE)
    \/ Acquire("A") /\ UNCHANGED meter
    \/ \E o \in LiveOutcomes, r \in RefreshOutcomes : Respond("A", o, r)
    \/ Wake("A")
    \/ Done("A")
    \/ Tick
    \/ TickAtHorizon

AcquireReturns == SF_vars(Acquire("A") /\ UNCHANGED meter)
SendReturns ==
    WF_vars(\E o \in LiveOutcomes, r \in RefreshOutcomes : Respond("A", o, r))
SleepReturns == WF_vars(Wake("A"))

SpecLive ==
    /\ InitLive /\ [][NextLive]_vars
    /\ TimeAdvances
    /\ AcquireReturns /\ SendReturns /\ SleepReturns

\* ---------------------------------------------------------- test_connection
\* get_viewer(): the query of the viewer, no variables, use_cache left true
ViewerQuery == [text |-> "viewer", variables |-> << >>]

\* Payloads of the viewer query: {} , {"viewer": {"name": ...}} and
\* {"viewer": null}.
ViewerPayloads == {"empty", "p1", "null"}

\* return result.get("viewer", {})
GetViewer(result) ==
    [null     |-> result = "null",
     has_name |-> result \notin {"null", "empty"},
     name     |-> IF result \in {"null", "empty"} THEN "none" ELSE result]

\* viewer.get("name", "Unknown")
NameOf(viewer) == IF viewer.has_name THEN viewer.name ELSE "Unknown"

\* except Exception as e
CatchesLinearAPIErrorOnly(error) == error = "LinearAPIError"
Catches(error) == IsException(error)

\* The except clause of test_connection: the report of a failure, or the
\* exception it does not catch.
OnTestError(error, text) ==
    IF Catches(error)
    THEN [NoReport EXCEPT !.returned = TRUE, !.success = FALSE, !.error = text,
                          !.message = "Connection failed"]
    ELSE [NoReport EXCEPT !.raised = error]

\* test_connection() once execute_query is over with the locals cl.
TestConnectionResult(cl) ==
    IF cl.error # "none" THEN OnTestError(cl.error, cl.msg)
    ELSE LET viewer == GetViewer(cl.result)
         IN  IF viewer.null
             THEN OnTestError("AttributeError", "NoneType has no attribute get")
             ELSE [NoReport EXCEPT !.returned = TRUE, !.success = TRUE,
                                   !.user = NameOf(viewer),
                                   !.message = "Connection successful"]

\* test_connection() returns its report or raises.
TestConnectionReturns(c) ==
    /\ call[c].pc = "done"
    /\ report[c] = NoReport
    /\ report' = [report EXCEPT ![c] = TestConnectionResult(call[c])]
    /\ UNCHANGED <<config, command, meter, max_retries, cache_on, cache, now, rate_limiter,
                   access_token, gql_client, transport, call, obs>>

\* The caller of test_connection() takes the report; the task is free.
TestConnectionDone(c) ==
    /\ report[c] # NoReport
    /\ report' = [report EXCEPT ![c] = NoReport]
    /\ call' = [call EXCEPT ![c] = IdleCall]
    /\ obs' = [obs EXCEPT ![c] = NoObs]
    /\ UNCHANGED <<config, command, meter, max_retries, cache_on, cache, now, rate_limiter,
                   access_token, gql_client, transport>>

\* One task calls test_connection() again and again; it may be cancelled.
TestOutcomes ==
    { [k |-> "ok", payload |-> p] : p \in ViewerPayloads }
    \cup { [k |-> "http", status |-> s, retry_after |-> RetryAfterAbsent]
             : s \in Statuses }
    \cup { [k |-> "exception", text |-> <<"Request", "Timeout">>] }

NextTest ==
    \/ Start("A", ViewerQuery, TRUE)
    \/ Acquire("A") /\ UNCHANGED meter
    \/ \E o \in TestOutcomes, r \in RefreshOutcomes : Respond("A", o, r)
    \/ Wake("A")
    \/ Cancel("A")
    \/ TestConnectionReturns("A")
    \/ TestConnectionDone("A")
    \/ Tick

SpecTest == Init /\ [][NextTest]_vars

\* -------------------------------------------------- team switch (team.py)
\* get_teams(): the query of the teams, no variables, use_cache left true
TeamsQuery == [text |-> "teams", variables |-> << >>]

\* Teams of the workspace.  The id of Clash reads like the key of Eng.
Eng   == [id |-> "t1",  key |-> "ENG", name |-> "Engineering"]
Ops   == [id |-> "t2",  key |-> "OPS", name |-> "Operations"]
Clash == [id |-> "ENG", key |-> "CLH", name |-> "Clash"]

\* Payloads of the teams query, and return result.get("teams", {}).get("nodes", [])
TeamsPayloads == {"empty", "eng", "eng-ops", "ops-eng", "clash-eng", "eng-clash"}
GetTeams(result) ==
    CASE result = "eng"       -> <<Eng>>
      [] result = "eng-ops"   -> <<Eng, Ops>>
      [] result = "ops-eng"   -> <<Ops, Eng>>
      [] result = "clash-eng" -> <<Clash, Eng>>
      [] result = "eng-clash" -> <<Eng, Clash>>
      [] OTHER                -> << >>

\* What the user may type as TEAM_IDENTIFIER.
TeamIdentifiers == {"ENG", "OPS", "t1", "t2", "QA"}

\* if team.get("key") == team_identifier or team.get("id") == team_identifier
Matches(team, team_identifier) ==
    team.key = team_identifier \/ team.id = team_identifier

\* validate_team(): the first team that matches; 0 stands for None
ValidateTeam(teams, team_identifier) ==
    IF \E i \in 1..Len(teams) : Matches(teams[i], team_identifier)
    THEN CHOOSE i \in 1..Len(teams) :
             /\ Matches(teams[i], team_identifier)
             /\ \A j \in 1..(i - 1) : ~Matches(teams[j], team_identifier)
    ELSE 0

\* config_manager.update_config(default_team_key=..., default_team_id=...)
UpdateConfig(cfg, key, id) ==
    [cfg EXCEPT !.default_team_key = key, !.default_team_id = id]

\* if team.get("key") == team_identifier: ... else: ...
SwitchedIdentifierAsKey(cfg, team, team_identifier) ==
    UpdateConfig(cfg, team_identifier, team.id)
Switched(cfg, team, team_identifier) ==
    IF team.key = team_identifier
    THEN UpdateConfig(cfg, team_identifier, team.id)
    ELSE UpdateConfig(cfg, team.key, team_identifier)

\* `team switch TEAM_IDENTIFIER` is run: cli_ctx.get_client()
SwitchInvoked(team_identifier) ==
    /\ command.status # "validating"
    /\ call["A"].pc = "idle"
    /\ command' = [team_identifier |-> team_identifier, status |-> "validating"]
    /\ UNCHANGED <<config, report, meter, max_retries, cache_on, cache, now,
                   rate_limiter, access_token, gql_client, transport, call, obs>>

\* asyncio.run(validate_team()) is over: the configuration is updated, or the
\* command aborts (no team matches, or get_teams() raised).
SwitchReturns ==
    /\ command.status = "validating"
    /\ call["A"].pc = "done"
    /\ LET cl    == call["A"]
           teams == GetTeams(cl.result)
           i     == ValidateTeam(teams, command.team_identifier)
       IN  IF cl.error # "none" \/ i = 0
           THEN /\ command' = [command EXCEPT !.status = "aborted"]
                /\ UNCHANGED config
           ELSE /\ command' = [command EXCEPT !.status = "switched"]
                /\ config' = Switched(config, teams[i], command.team_identifier)
    /\ call' = [call EXCEPT !["A"] = IdleCall]
    /\ obs' = [obs EXCEPT !["A"] = NoObs]
    /\ UNCHANGED <<report, meter, max_retries, cache_on, cache, now,
                   rate_limiter, access_token, gql_client, transport>>

\* The command is run again and again against a client without cache.
InitSwitch ==
    /\ Init
    /\ ~cache_on

SwitchOutcomes ==
    { [k |-> "ok", payload |-> p] : p \in TeamsPayloads }
    \cup { [k |-> "http", status |-> s, retry_after |-> RetryAfterAbsent]
             : s \in {401, 429, 503} }

NextSwitch ==
    \/ \E t \in TeamIdentifiers : SwitchInvoked(t)
    \/ command.status = "validating" /\ Start("A", TeamsQuery, TRUE)
    \/ Acquire("A") /\ UNCHANGED meter
    \/ \E o \in SwitchOutcomes, r \in RefreshOutcomes : Respond("A", o, r)
    \/ Wake("A")
    \/ SwitchReturns
    \/ Tick

SpecSwitch == InitSwitch /\ [][NextSwitch]_vars

\* ------------------------------------------------------------- properties
AllKind(hist, kind) == \A i \in 1..Len(hist) : hist[i] = kind
LastOf(hist) == hist[Len(hist)]
InFlight(c) == call[c].pc \in {"send", "sleep"}
Failed(c, error, msg) ==
    call[c].pc = "done" /\ call[c].error = error /\ call[c].msg = msg
Succeeded(c) == call[c].pc = "done" /\ call[c].error = "none"

\* C1: whatever the transport answers, one logical call makes at most
\* max_retries + 1 send attempts.
C1_AttemptBudget == \A c \in Calls : obs[c].sends <= max_retries + 1

\* A call used up the whole budget of a configuration that allows retries,
\* the last attempt being a 401.
C1_Witness ==
    \E c \in Calls :
        /\ max_retries = MaxRetries
        /\ obs[c].sends = max_retries + 1
        /\ obs[c].hist # << >> /\ LastOf(obs[c].hist) = "401"
        /\ call[c].pc = "done"

\* C2: when the first k send attempts (0 <= k <= max_retries) end in a 5xx the
\* call is still in progress, and when attempt k + 1 then returns a payload
\* the call returns that payload after exactly k + 1 sends.
C2_RetryThenSuccess ==
    \A c \in Calls :
        LET h == obs[c].hist
            k == Len(h) - 1
        IN  /\ (h # << >> /\ AllKind(h, "5xx") /\ Len(h) <= max_retries)
                => (InFlight(c) /\ obs[c].sends \in {Len(h), Len(h) + 1})
            /\ (h # << >> /\ AllKind(SubSeq(h, 1, k), "5xx") /\ LastOf(h) = "ok")
                => /\ Succeeded(c)
                   /\ call[c].result = obs[c].last.payload
                   /\ obs[c].sends = k + 1

\* max_retries 5xx answers, then a payload: success after max_retries + 1 sends.
C2_Witness ==
    \E c \in Calls :
        /\ max_retries = MaxRetries
        /\ Len(obs[c].hist) = max_retries + 1
        /\ AllKind(SubSeq(obs[c].hist, 1, max_retries), "5xx")
        /\ LastOf(obs[c].hist) = "ok"
        /\ call[c].result = "p1"

\* C3: when every send attempt ends in a 5xx the call goes on until attempt
\* max_retries + 1 and then fails with LinearAPIError (the transport error),
\* after exactly max_retries + 1 sends and max_retries backoff sleeps.
C3_RetryExhaustion ==
    \A c \in Calls :
        LET h == obs[c].hist
        IN  (h # << >> /\ AllKind(h, "5xx")) =>
                IF Len(h) = max_retries + 1
                THEN /\ Failed(c, "LinearAPIError", "Transport error")
                     /\ obs[c].sends = max_retries + 1
                     /\ obs[c].sleeps = max_retries
                ELSE InFlight(c) /\ obs[c].sleeps = Len(h)

\* Retries were allowed and all of them ended in a 5xx.
C3_Witness ==
    \E c \in Calls :
        /\ max_retries = MaxRetries
        /\ Len(obs[c].hist) = max_retries + 1
        /\ AllKind(obs[c].hist, "5xx")
        /\ call[c].pc = "done"

\* C4: a 401 on the first send attempt followed by a successful refresh does
\* not use up the attempt budget: the second send is made whatever
\* max_retries is (also when it is 0) with max_retries + 1 attempts still
\* available, and when it returns a payload the call returns it, refresh
\* having been invoked exactly once.
C4_FirstUnauthorizedIsFree ==
    \A c \in Calls :
        /\ (obs[c].hist = <<"401">> /\ obs[c].refresh = "ok")
            => /\ call[c].pc = "send"
               /\ obs[c].refreshes = 1
               /\ (max_retries + 1) - call[c].attempt = max_retries + 1
        /\ (obs[c].hist = <<"401", "ok">>)
            => /\ Succeeded(c)
               /\ call[c].result = obs[c].last.payload
               /\ obs[c].refreshes = 1

\* C5: the send attempt that follows a 401 and a successful refresh carries
\* the Authorization header of the refreshed token.
C5_ResendUsesRefreshedToken ==
    \A c \in Calls :
        (call[c].pc = "send" /\ obs[c].hist # << >> /\ LastOf(obs[c].hist) = "401")
            => obs[c].sentWith = "fresh"

\* C6: when a send attempt ends in a 401 and refresh_token() fails with the
\* authenticator's AuthenticationError, the call is over at once with
\* AuthenticationError: the 401 was its last send, it never slept after it
\* and refresh was not invoked again, whatever budget was left.
C6_RefreshFailureIsFatal ==
    \A c \in Calls :
        (obs[c].hist # << >> /\ LastOf(obs[c].hist) = "401"
            /\ obs[c].refresh = "AuthenticationError")
            => /\ Failed(c, "AuthenticationError", "Authentication failed")
               /\ obs[c].sends = Len(obs[c].hist)
               /\ obs[c].sleeps = Len(SelectSeq(obs[c].hist,
                                      LAMBDA k : k \in {"429", "5xx", "timeout"}))
               /\ obs[c].refreshes = Len(SelectSeq(obs[c].hist,
                                      LAMBDA k : k = "401"))

\* The refresh failed on the first attempt of a call that had retries left.
C6_Witness ==
    \E c \in Calls :
        /\ max_retries = MaxRetries
        /\ obs[c].hist = <<"401">>
        /\ obs[c].refresh = "AuthenticationError"
        /\ call[c].error = "AuthenticationError"

\* C7: when every send attempt ends in a 429 the call fails with
\* RateLimitError after exactly max_retries + 1 sends and max_retries waits.
C7_AlwaysRateLimited ==
    \A c \in Calls :
        (call[c].pc = "done" /\ obs[c].hist # << >> /\ AllKind(obs[c].hist, "429"))
            => /\ Failed(c, "RateLimitError", "Rate limit exceeded")
               /\ obs[c].sends = max_retries + 1
               /\ obs[c].sleeps = max_retries

\* What the code does on 429s: with a Retry-After header that is absent or an
\* integer on every answer, the call waits once per non-final attempt and
\* fails with RateLimitError after exactly max_retries + 1 sends; a 429 whose
\* Retry-After is present and not an integer ends the call at once with
\* LinearAPIError("Unexpected error").
C7_AlwaysRateLimitedParsed ==
    \A c \in Calls :
        LET h == obs[c].hist
        IN  (h # << >> /\ AllKind(h, "429")) =>
                IF RetryAfterRaises(obs[c].last.retry_after)
                THEN /\ Failed(c, "LinearAPIError", "Unexpected error")
                     /\ obs[c].sleeps = Len(h) - 1
                ELSE IF Len(h) = max_retries + 1
                THEN /\ Failed(c, "RateLimitError", "Rate limit exceeded")
                     /\ obs[c].sends = max_retries + 1
                     /\ obs[c].sleeps = max_retries
                ELSE /\ InFlight(c)
                     /\ obs[c].sleeps = Len(h)
                     /\ obs[c].wait = RetryAfterWait(obs[c].last.retry_after)

\* The steps of call c, and what a step leaves call c with.
StepOf(c) == call'[c] # call[c] \/ obs'[c] # obs[c]

\* C8: with caching enabled and use_cache = true, a call that finds a fresh
\* entry for its query and variables returns the entry's value at once: no
\* send, no rate-limit token, no refresh, and rate limiter, cache, access
\* token, shared client and shared transport are left as they were.
C8_CacheHitFrame ==
    [][\A c \in Calls :
        (/\ call[c].pc = "idle" /\ call'[c].pc # "idle"
         /\ call'[c].use_cache /\ cache_on
         /\ Fresh(cache[CacheKey(call'[c].query)], now))
        => /\ call'[c].pc = "done"
           /\ call'[c].error = "none"
           /\ call'[c].result = cache[CacheKey(call'[c].query)].value
           /\ obs'[c].sends = 0
           /\ obs'[c].acquired = 0
           /\ obs'[c].refreshes = 0
           /\ UNCHANGED <<rate_limiter, cache, access_token, gql_client,
                          transport>>]_vars

\* A call was served from the cache with the payload an earlier call stored,
\* after that earlier call had spent a rate-limit token.
C8_Witness ==
    \E c \in Calls :
        /\ obs[c].hit
        /\ call[c].pc = "done"
        /\ call[c].result = "p2"
        /\ rate_limiter.tokens < Capacity

\* C9: a call with use_cache = false, and any call on a client without a
\* cache, is never served from the cache, leaves the cache as it is at each
\* of its steps, and is over only after acquiring a token and sending.
C9_CacheBypassAlwaysSends ==
    [][\A c \in Calls :
        (StepOf(c) /\ call'[c].pc # "idle" /\ ~(call'[c].use_cache /\ cache_on))
        => /\ cache' = cache
           /\ ~obs'[c].hit
           /\ (call[c].pc = "idle" => call'[c].pc = "acquire")
           /\ (call'[c].pc = "done" => obs'[c].acquired = 1 /\ obs'[c].sends >= 1)
      ]_vars

\* C9 amended: such a call is never served from the cache, leaves the cache
\* as it is at each of its steps, and is over only after acquiring a token
\* and either sending or failing to build the client for lack of an access
\* token (AuthenticationError, no send).
C9_CacheBypass ==
    [][\A c \in Calls :
        (StepOf(c) /\ call'[c].pc # "idle" /\ ~(call'[c].use_cache /\ cache_on))
        => /\ cache' = cache
           /\ ~obs'[c].hit
           /\ obs'[c].wrote = 0
           /\ (call[c].pc = "idle" => call'[c].pc = "acquire")
           /\ (call'[c].pc = "done" =>
                 /\ obs'[c].acquired = 1
                 /\ \/ obs'[c].sends >= 1
                    \/ /\ obs'[c].sends = 0
                       /\ call'[c].error = "AuthenticationError"
                       /\ call'[c].msg = "No valid access token")
      ]_vars

\* A use_cache = false call on a caching client returned a payload although a
\* fresh entry with another value was cached for its query, and left it there.
C9_Witness ==
    \E c \in Calls :
        /\ cache_on /\ ~call[c].use_cache
        /\ Succeeded(c) /\ call[c].result = "p1"
        /\ CacheGet(cache, call[c].query, now) = "p2"

\* C10: with caching enabled and use_cache = true, a call that ends in a
\* transport-level success has stored the returned payload, whatever it is
\* (the empty payload too), under its query and variables.
C10_EverySuccessIsCached ==
    [][\A c \in Calls :
        (/\ call[c].pc = "send" /\ Succeeded(c)'
         /\ call[c].use_cache /\ cache_on)
        => cache'[CacheKey(call[c].query)] =
               [value |-> call'[c].result, storedAt |-> now]]_vars

\* C10 amended: such a call has stored the returned payload when the payload
\* is not empty, so that the same query read within the TTL gets that payload
\* from the cache; an empty payload is returned and the cache is left as it is.
C10_NonEmptySuccessIsCached ==
    [][\A c \in Calls :
        (/\ call[c].pc = "send" /\ Succeeded(c)'
         /\ call[c].use_cache /\ cache_on)
        => LET q == call[c].query
               p == call'[c].result
           IN  IF p # "empty"
               THEN /\ cache' = [cache EXCEPT ![CacheKey(q)] =
                                    [value |-> p, storedAt |-> now]]
                    /\ \A t \in now..MaxTime :
                          t - now < CacheTTL => CacheGet(cache', q, t) = p
               ELSE cache' = cache]_vars

\* A payload was cached by the call that fetched it, replacing an older entry.
C10_Witness ==
    \E c \in Calls :
        /\ Succeeded(c) /\ obs[c].wrote = 1
        /\ call[c].result = "p2"
        /\ cache[CacheKey(call[c].query)] = [value |-> "p2", storedAt |-> now]
        /\ now > 0

\* ------------------------------------------------------------ failed calls
\* C11: a call that ends in an error has written nothing to the cache: every
\* step of a call that does not end it with a payload, and every step that
\* takes an answer other than a payload, leaves the cache as it was.
C11_FailedCallFrame ==
    [][\A c \in Calls :
          /\ (StepOf(c) /\ ~Succeeded(c)') => cache' = cache
          /\ (obs'[c].hist # obs[c].hist /\ obs'[c].last.k # "ok")
                => cache' = cache
          /\ (call'[c].pc = "done" /\ call'[c].error # "none")
                => obs'[c].wrote = 0]_vars

\* A caching call failed after a retry while the cache held an entry for its
\* own key.
C11_Witness ==
    \E c \in Calls :
        /\ call[c].pc = "done" /\ call[c].error # "none"
        /\ call[c].use_cache /\ cache_on
        /\ obs[c].sends >= 2
        /\ cache[CacheKey(call[c].query)].value # None

\* C12: a call that fails after the rate limiter let it through fails with
\* AuthenticationError, RateLimitError or LinearAPIError, whatever the
\* transport, refresh_token() or int() raised.
C12_TaxonomyOnly ==
    \A c \in Calls :
        (call[c].pc = "done" /\ call[c].error # "none")
            => /\ obs[c].acquired = 1
               /\ call[c].error \in
                    {"AuthenticationError", "RateLimitError", "LinearAPIError"}

\* refresh_token() raised something else than AuthenticationError, or the
\* Retry-After header was not a number, and the call is over.
C12_Witness ==
    \E c \in Calls :
        /\ call[c].pc = "done" /\ call[c].error = "LinearAPIError"
        /\ \/ obs[c].refresh = "Exception"
           \/ /\ obs[c].last.k = "http" /\ obs[c].last.status = 429
              /\ obs[c].last.retry_after.present
              /\ ~IsInt(obs[c].last.retry_after.text)

\* What a description says, read independently of the client.
IndicatesTimeout(text) ==
    \E i \in 1..Len(text) : text[i] \in {"timeout", "Timeout"}
IndicatesConnectivity(text) == \E i \in 1..Len(text) : text[i] = "connect"

\* An answer that is neither a payload, a 401, a 429, a 5xx nor a timeout.
Fatal(o) ==
    \/ o.k = "http" /\ o.status \notin {401, 429} /\ ~(o.status \in 500..599)
    \/ o.k \in {"transport", "exception"} /\ ~IndicatesTimeout(o.text)

\* C13: a send attempt that ends in such an answer ends the call with
\* LinearAPIError at once: it was the last send, the call is not sleeping and
\* every sleep it made came before that attempt, whatever is left of the
\* attempt budget.
C13_FatalAtOnce ==
    \A c \in Calls :
        Fatal(obs[c].last)
            => /\ call[c].pc = "done"
               /\ call[c].error = "LinearAPIError"
               /\ call[c].msg \in {"Transport error", "Query execution failed"}
               /\ obs[c].sends = Len(obs[c].hist)
               /\ obs[c].sleeps < Len(obs[c].hist)

\* The first attempt of a call with retries left ended in a 404.
C13_Witness ==
    \E c \in Calls :
        /\ max_retries = MaxRetries
        /\ obs[c].sends = 1 /\ obs[c].sleeps = 0
        /\ obs[c].last.k = "http" /\ obs[c].last.status = 404
        /\ Failed(c, "LinearAPIError", "Transport error")

\* The retry policy of 5xx applied to the last answer of call c: with
\* attempts left the call sleeps 2^attempt seconds and sends again, on the
\* last attempt it fails with LinearAPIError.
RetriedLikeServerError(c) ==
    LET a == Len(obs[c].hist) - 1
    IN  IF a < max_retries
        THEN /\ obs[c].wait = 2 ^ a
             /\ \/ call[c].pc = "sleep" /\ obs[c].sends = a + 1
                \/ call[c].pc = "send"  /\ obs[c].sends = a + 2
        ELSE /\ call[c].pc = "done" /\ call[c].error = "LinearAPIError"
             /\ obs[c].sends = a + 1

\* C14 as stated: an error without HTTP status whose description indicates a
\* timeout or a connectivity condition is retried like a 5xx.
C14_NetworkErrorRetried ==
    \A c \in Calls :
        LET o == obs[c].last
        IN  (/\ o.k \in {"transport", "exception"}
             /\ IndicatesTimeout(o.text) \/ IndicatesConnectivity(o.text))
                => RetriedLikeServerError(c)

\* C14: an exception other than TransportError whose description contains
\* "timeout" in any letter case is retried like a 5xx; a TransportError
\* without response, and any exception whose description does not contain
\* that word (connection failures, the empty description), ends the call
\* with LinearAPIError at that attempt.
C14_TimeoutRetried ==
    \A c \in Calls :
        LET o == obs[c].last
        IN  /\ (o.k = "exception" /\ IndicatesTimeout(o.text))
                => RetriedLikeServerError(c)
            /\ (\/ o.k = "transport"
                \/ o.k = "exception" /\ ~IndicatesTimeout(o.text))
                => /\ call[c].pc = "done" /\ call[c].error = "LinearAPIError"
                   /\ obs[c].sends = Len(obs[c].hist)

\* A second attempt is on its way after a timeout and a sleep of one second.
C14_Witness ==
    \E c \in Calls :
        /\ call[c].pc = "send" /\ call[c].attempt = 1
        /\ obs[c].last.k = "exception" /\ IndicatesTimeout(obs[c].last.text)
        /\ obs[c].sleeps = 1 /\ obs[c].wait = 1

\* C15: while the authenticator has no valid access token no transport
\* client exists, and a call that got through acquire() has failed with
\* AuthenticationError ("No valid access token") without a send, a sleep or a
\* refresh.
C15_NoTokenNoSend ==
    \A c \in Calls :
        (access_token = "none" /\ obs[c].acquired = 1)
            => /\ Failed(c, "AuthenticationError", "No valid access token")
               /\ obs[c].sends = 0 /\ obs[c].sleeps = 0
               /\ obs[c].refreshes = 0
               /\ gql_client = None /\ transport = None

\* The call failed that way in a configuration that allows retries.
C15_Witness ==
    \E c \in Calls :
        /\ max_retries = MaxRetries
        /\ access_token = "none" /\ gql_client = None
        /\ Failed(c, "AuthenticationError", "No valid access token")
        /\ obs[c].acquired = 1 /\ obs[c].sends = 0

\* ---------------------------------------------------------- response cache
\* C16: the cache serves an entry only while now - storedAt < ttl.  A call
\* that consults the cache returns the stored value when the entry of its key
\* is younger than the TTL and goes on to the rate limiter when there is no
\* entry or its age has reached the TTL; a write stores the payload under
\* the key of the call with the time of the write.
C16_ServedOnlyWhileFresh ==
    [][\A c \in Calls :
          /\ (call[c].pc = "idle" /\ call'[c].pc # "idle"
              /\ call'[c].use_cache /\ cache_on)
                => LET entry == cache[CacheKey(call'[c].query)]
                   IN  IF entry.value # None /\ now - entry.storedAt < CacheTTL
                       THEN /\ obs'[c].hit /\ call'[c].pc = "done"
                            /\ call'[c].result = entry.value
                       ELSE ~obs'[c].hit /\ call'[c].pc = "acquire"
          /\ obs'[c].wrote > obs[c].wrote
                => cache'[CacheKey(call[c].query)] =
                       [value |-> call'[c].result, storedAt |-> now]]_vars

\* A caching call was sent on to the rate limiter although its key has an
\* entry: the entry is exactly CacheTTL old.
C16_Witness ==
    \E c \in Calls :
        /\ call[c].pc = "acquire" /\ call[c].use_cache /\ cache_on
        /\ LET entry == cache[CacheKey(call[c].query)]
           IN  entry.value # None /\ now - entry.storedAt = CacheTTL

\* Same text and same name-to-value mapping, read off the queries themselves.
SameQuery(q1, q2) ==
    /\ q1.text = q2.text
    /\ { q1.variables[i] : i \in 1..Len(q1.variables) }
         = { q2.variables[i] : i \in 1..Len(q2.variables) }

\* C17: the cache key depends on the query text and the variable mapping
\* only.  What a call stores is served to every query with the same text and
\* the same mapping, in whatever order its variables were inserted, and what
\* the cache holds for a query differing in text or in a value is left as it
\* was; a call served from the cache got what any query with its text and
\* mapping would get.
C17_KeyIsTextAndMapping ==
    [][\A c \in Calls :
          /\ obs'[c].wrote > obs[c].wrote
                => \A q2 \in AllQueries :
                      CacheGet(cache', q2, now) =
                          IF SameQuery(call[c].query, q2)
                          THEN call'[c].result
                          ELSE CacheGet(cache, q2, now)
          /\ (call[c].pc = "idle" /\ obs'[c].hit)
                => \A q2 \in AllQueries :
                      SameQuery(call'[c].query, q2)
                          => CacheGet(cache, q2, now) = call'[c].result]_vars

\* One task stored a payload, the other was served it for the same query with
\* the variables in the other order, while the query with another value has
\* an entry of its own holding another payload.
C17_Witness ==
    \E c, x \in Calls :
        /\ call[x].pc = "done" /\ obs[x].wrote = 1
        /\ call[c].pc = "done" /\ obs[c].hit
        /\ call[c].query # call[x].query
        /\ SameQuery(call[c].query, call[x].query)
        /\ call[c].result = call[x].result
        /\ cache[CacheKey(OtherValueQuery)].value \notin {None, call[c].result}

\* ------------------------------------------------------------ rate limiter
\* C18: whatever the interleaving of the callers' acquire() calls and of the
\* clock, the bucket holds between 0 and capacity tokens.
C18_TokensInRange ==
    rate_limiter.tokens >= 0 /\ rate_limiter.tokens <= Capacity

\* The bucket is empty with a caller suspended in acquire(), after refills
\* have happened.
C18_Witness ==
    /\ rate_limiter.tokens = 0
    /\ meter.refilled > 0
    /\ \E c \in Calls : call[c].pc = "acquire"

\* C19: no token is spent twice.  The acquire() calls that have returned
\* never outnumber the initial tokens plus the tokens refilled so far (with
\* the bucket's content they add up to exactly that), so at most capacity of
\* them return while no time has passed; a caller that finds less than one
\* token after the refill stays suspended, and a caller that returns has
\* taken one token.
C19_NoDoubleSpend ==
    /\ [](/\ meter.granted <= Capacity + meter.refilled
          /\ meter.granted + rate_limiter.tokens = Capacity + meter.refilled
          /\ now = 0 => meter.granted <= Capacity)
    /\ [][\A c \in Calls :
             LET available == rate_limiter.tokens
                                + (now - rate_limiter.lastRefill) * RefillRate
             IN  /\ (call[c].pc = "acquire" /\ available < 1)
                       => call'[c].pc = "acquire"
                 /\ (call[c].pc = "acquire" /\ call'[c].pc # "acquire")
                       => /\ meter'.granted = meter.granted + 1
                          /\ obs'[c].acquired = 1]_vars

\* No time has passed, capacity calls have returned from acquire() and the
\* next caller is suspended in front of the empty bucket.
C19_Witness ==
    /\ now = 0
    /\ meter.granted = Capacity
    /\ rate_limiter.tokens = 0
    /\ \E c \in Calls : call[c].pc = "acquire"

C21_CloseEvictsAll ==
    [][/\ (call' = call /\ now' = now /\ rate_limiter' = rate_limiter
           /\ cache' # cache)
             => \A q \in AllQueries : CacheGet(cache', q, now) = None
       /\ \A c \in Calls :
             /\ (call[c].pc = "idle" /\ call'[c].pc # "idle"
                 /\ cache = EmptyCache)
                   => call'[c].pc = "acquire" /\ ~obs'[c].hit
             /\ (call[c].pc = "acquire" /\ call'[c].pc # "acquire"
                 /\ access_token = "valid")
                   => call'[c].pc = "send" /\ obs'[c].sends = 1]_vars

\* One task stored a payload for a query; no time has passed since, the cache
\* is empty and the other task, asking for the same query, is sending.
C21_Witness ==
    \E c, x \in Calls :
        /\ now = 0 /\ cache = EmptyCache
        /\ call[x].pc = "done" /\ obs[x].wrote = 1
        /\ call[c].pc = "send" /\ call[c].use_cache
        /\ SameQuery(call[c].query, call[x].query)

\* ------------------------------------------------------------ cancellation
\* C22: a cancellation delivered to a call suspended in a backoff sleep, a
\* 429 wait or acquire() ends the call there with the cancellation itself:
\* it is no taxonomy error, no send follows the last answered one, a call
\* cancelled in acquire() has taken no token and sent nothing, and neither
\* the call nor its cancellation has written the cache.
C22_CancelAborts ==
    /\ [](\A c \in Calls :
             obs[c].cancelled \in {"sleep", "acquire"}
                => /\ call[c].pc = "done"
                   /\ call[c].error = "CancelledError"
                   /\ call[c].result = None
                   /\ obs[c].sends = Len(obs[c].hist)
                   /\ obs[c].wrote = 0
                   /\ obs[c].cancelled = "acquire"
                        => obs[c].sends = 0 /\ obs[c].acquired = 0)
    /\ [][\A c \in Calls :
             obs'[c].cancelled # obs[c].cancelled
                => cache' = cache /\ rate_limiter' = rate_limiter]_vars

\* A call was cancelled in the sleep that followed its first answer, with
\* the retry still to be made.
C22_Witness ==
    \E c \in Calls :
        /\ obs[c].cancelled = "sleep"
        /\ call[c].attempt = 0 /\ max_retries > 0
        /\ obs[c].sleeps = 1 /\ obs[c].sends = 1

\* ---------------------------------------------------------- concurrency
\* C23: a call suspended in a backoff sleep or a 429 wait holds no lock.
\* While it sleeps the other task can take every step of a call of its own:
\* start it, get a token that is available, have its send answered (and the
\* payload cached), and finish.
C23_SleeperHoldsNoLock ==
    \A c, x \in Calls :
        (c # x /\ call[x].pc = "sleep")
            => /\ call[c].pc = "idle"
                    => ENABLED (Runnable(c) /\ Start(c, PairQuery, TRUE))
               /\ (/\ call[c].pc = "acquire"
                   /\ rate_limiter.tokens
                        + (now - rate_limiter.lastRefill) * RefillRate >= 1)
                    => ENABLED (/\ Runnable(c) /\ Acquire(c) /\ Metered(c)
                                /\ call'[c].pc = "send")
               /\ call[c].pc = "send"
                    => \A o \in PairOutcomes :
                          ENABLED (Runnable(c) /\ Respond(c, o, "ok"))
               /\ call[c].pc = "done"
                    => ENABLED (Runnable(c) /\ Done(c))

\* One task sleeps after a 503 or a 429; the other has acquired its token,
\* sent once and returned a payload that the cache now holds.
C23_Witness ==
    \E c, x \in Calls :
        /\ c # x
        /\ call[x].pc = "sleep" /\ LastOf(obs[x].hist) \in {"5xx", "429"}
        /\ Succeeded(c) /\ obs[c].acquired = 1 /\ obs[c].sends = 1
        /\ obs[c].wrote = 1
        /\ cache[CacheKey(call[c].query)].value = call[c].result

\* ------------------------------------------------------- unexpected errors
\* C24: an unexpected error inside the request pipeline reaches the caller as
\* LinearAPIError with the original error as its cause and without a result:
\* a refresh_token() that raises something else than AuthenticationError, a
\* Retry-After header that is no integer, and an exception of the send that
\* is no TransportError and no timeout.
C24_UnexpectedIsWrapped ==
    \A c \in Calls :
        LET o == obs[c].last
        IN  /\ (o.k = "http" /\ o.status = 401 /\ obs[c].refresh = "Exception")
                => /\ Failed(c, "LinearAPIError", "Unexpected error")
                   /\ call[c].cause = "Exception" /\ call[c].result = None
            /\ (/\ o.k = "http" /\ o.status = 429
                /\ o.retry_after.present /\ ~IsInt(o.retry_after.text))
                => /\ Failed(c, "LinearAPIError", "Unexpected error")
                   /\ call[c].cause = "ValueError" /\ call[c].result = None
            /\ (o.k = "exception" /\ ~IndicatesTimeout(o.text))
                => /\ Failed(c, "LinearAPIError", "Query execution failed")
                   /\ call[c].cause = "Exception" /\ call[c].result = None

\* The first answer of a call with retries left was a 429 whose Retry-After
\* is no integer: the ValueError came out as the cause of a LinearAPIError.
C24_Witness ==
    \E c \in Calls :
        /\ max_retries = MaxRetries /\ obs[c].sends = 1
        /\ call[c].pc = "done" /\ call[c].error = "LinearAPIError"
        /\ call[c].cause = "ValueError"

\* ------------------------------------------------------------------ waits
\* C25: the sleep after a 5xx or a retryable timeout on the send attempt
\* with zero-based index a lasts 2^a seconds, a counting every earlier send
\* of the call whatever its answer was: 1, 2, 4, ... seconds when every
\* attempt from the first ends in a 5xx.
C25_BackoffIsPowerOfTwo ==
    \A c \in Calls :
        LET h == obs[c].hist
        IN  (call[c].pc = "sleep" /\ LastOf(h) \in {"5xx", "timeout"})
                => /\ obs[c].wait = 2 ^ (Len(h) - 1)
                   /\ obs[c].sends = Len(h)
                   /\ AllKind(h, "5xx") => obs[c].wait \in {1, 2, 4, 8}

\* The second attempt of a call ended in a 5xx or a timeout after a first
\* one that ended in a 401 or a 429: the call sleeps two seconds.
C25_Witness ==
    \E c \in Calls :
        /\ call[c].pc = "sleep" /\ Len(obs[c].hist) = 2
        /\ obs[c].hist[1] \in {"401", "429"}
        /\ obs[c].hist[2] \in {"5xx", "timeout"}
        /\ obs[c].wait = 2

\* C26: on a 429 with attempts left the call waits, before its next send,
\* the number of seconds the Retry-After header gives when the header is
\* there (and is an integer), and 60 seconds when it is not, on whichever
\* attempt the 429 arrives.
C26_RetryAfterWait ==
    \A c \in Calls :
        LET o == obs[c].last
            h == obs[c].hist
        IN  (/\ o.k = "http" /\ o.status = 429
             /\ Len(h) - 1 < max_retries
             /\ ~o.retry_after.present \/ IsInt(o.retry_after.text))
                => /\ \/ call[c].pc = "sleep" /\ obs[c].sends = Len(h)
                      \/ call[c].pc = "send"  /\ obs[c].sends = Len(h) + 1
                   /\ obs[c].wait = IF ~o.retry_after.present THEN 60
                                    ELSE IF o.retry_after.text = <<2>> THEN 2
                                    ELSE IF o.retry_after.text = <<1, 0>> THEN 10
                                    ELSE IntOf(o.retry_after.text)

\* The second attempt of a call was answered 429 with Retry-After: 10, and
\* the call waits ten seconds.
C26_Witness ==
    \E c \in Calls :
        /\ call[c].pc = "sleep" /\ Len(obs[c].hist) = 2
        /\ obs[c].last.k = "http" /\ obs[c].last.status = 429
        /\ obs[c].last.retry_after.present
        /\ obs[c].wait = 10

\* C27: a call that misses or bypasses the cache takes exactly one token and
\* takes it before its first send; a call served from the cache takes none.
\* Whatever is sent or retried has its one token, the tokens that left the
\* bucket are those of the acquire() calls that returned, and no answer, no
\* sleep and no retry touches the bucket.
C27_OneTokenPerCall ==
    /\ [](/\ \A c \in Calls :
                /\ obs[c].acquired <= 1
                /\ (obs[c].sends >= 1 \/ call[c].pc \in {"send", "sleep"})
                      => obs[c].acquired = 1
                /\ obs[c].hit => obs[c].acquired = 0 /\ obs[c].sends = 0
          /\ rate_limiter.tokens = Capacity + meter.refilled - meter.granted)
    /\ [][\A c \in Calls :
             /\ (call[c].pc \in {"send", "sleep"} /\ StepOf(c))
                   => rate_limiter' = rate_limiter /\ meter' = meter
             /\ obs'[c].acquired > obs[c].acquired
                   => /\ obs[c].sends = 0 /\ call[c].pc = "acquire"
                      /\ meter'.granted = meter.granted + 1]_vars

\* A call is making its second send, after a 401, a 429 or a 503, on the one
\* token it took.
C27_Witness ==
    \E c \in Calls :
        /\ call[c].pc = "send" /\ obs[c].sends = 2
        /\ obs[c].acquired = 1
        /\ rate_limiter.tokens = Capacity + meter.refilled - meter.granted
        /\ meter.granted >= 1

\* ------------------------------------------------------------ shared client
\* C28: the token changing only by the refresh after a 401, the client and
\* the transport the executor holds are both unset or both bound to headers
\* built from the current token, whatever the two tasks do; a successful
\* refresh leaves both unset.
C28_SharedClientIsCurrent ==
    /\ [](/\ gql_client \in {None, AuthHeaders}
          /\ transport \in {None, AuthHeaders}
          /\ gql_client = None <=> transport = None)
    /\ [][\A c \in Calls :
             (obs'[c].refreshes > obs[c].refreshes /\ obs'[c].refresh = "ok")
                => gql_client' = None /\ transport' = None]_vars

\* After a refresh one task still holds a client built from the earlier
\* token while the executor holds one built from the current token for the
\* call of the other task.
C28_Witness ==
    \E c, x \in Calls :
        /\ call[x].pc \in {"send", "sleep"} /\ call[x].client = "stale"
        /\ call[c].pc = "send" /\ call[c].client = AuthHeaders
        /\ gql_client = AuthHeaders /\ transport = AuthHeaders

\* C29: concurrent calls for the same query and variables are not coalesced.
\* A call that returned a payload without a cache hit took a token and made
\* a send of its own, whatever the other call was doing; and when a call
\* stores its payload after the other call stored one for the same key, the
\* cache serves the payload stored last.
C29_LastWriteWins ==
    /\ [](\A c \in Calls :
             (Succeeded(c) /\ ~obs[c].hit)
                => obs[c].acquired = 1 /\ obs[c].sends >= 1)
    /\ [][\A c, x \in Calls :
             (/\ c # x
              /\ obs'[c].wrote > obs[c].wrote
              /\ call[x].pc = "done" /\ obs[x].wrote = 1
              /\ CacheKey(call[x].query) = CacheKey(call[c].query))
                => /\ CacheGet(cache', call[c].query, now) = call'[c].result
                   /\ CacheGet(cache', call[x].query, now) = call'[c].result]_vars

\* No time has passed: both tasks missed the cache for the same query, each
\* took a token, sent and stored its payload, and the cache holds one of the
\* two different payloads.
C29_Witness ==
    \E c, x \in Calls :
        /\ c # x /\ now = 0
        /\ Succeeded(c) /\ Succeeded(x)
        /\ obs[c].wrote = 1 /\ obs[x].wrote = 1
        /\ obs[c].sends = 1 /\ obs[x].sends = 1
        /\ obs[c].acquired = 1 /\ obs[x].acquired = 1
        /\ meter.granted = 2
        /\ call[c].result # call[x].result
        /\ cache[CacheKey(call[c].query)].value = call[c].result

\* ---------------------------------------------------------- exhausted calls
\* A call that failed on its last permitted send attempt.
Exhausted(c) ==
    /\ call[c].pc = "done" /\ call[c].error # "none"
    /\ obs[c].sends = max_retries + 1
    /\ Len(obs[c].hist) = max_retries + 1

\* C30: the error of an exhausted call depends on the answer to its last
\* send only: RateLimitError exactly when that answer was a 429,
\* LinearAPIError when it was a 5xx or a timeout.
C30_LastAttemptDecides ==
    \A c \in Calls :
        Exhausted(c)
            => /\ call[c].error = "RateLimitError" <=> LastOf(obs[c].hist) = "429"
               /\ LastOf(obs[c].hist) \in {"5xx", "timeout"}
                    => call[c].error = "LinearAPIError"

\* What the code does: the same, for the 429 answers whose Retry-After header
\* is absent or an integer.
C30_LastAttemptDecidesParsed ==
    \A c \in Calls :
        (Exhausted(c) /\ ~(/\ obs[c].last.k = "http"
                           /\ RetryAfterRaises(obs[c].last.retry_after)))
            => /\ call[c].error = "RateLimitError" <=> LastOf(obs[c].hist) = "429"
               /\ LastOf(obs[c].hist) \in {"5xx", "timeout"}
                    => call[c].error = "LinearAPIError"

Remaining(c) ==
    2 * (max_retries - call[c].attempt) + (IF call[c].pc = "send" THEN 1 ELSE 0)

\* C32: every call ends, with a payload or with an error.  Each answer to a
\* send and each return from a sleep either ends the call or leaves strictly
\* less of the loop, whatever the answers are; and a call that was started is
\* over at some later time.
C32_CallTerminates ==
    /\ [][\A c \in Calls :
             (/\ call[c].pc \in {"send", "sleep"}
              /\ (obs'[c] # obs[c] \/ call'[c].pc # call[c].pc
                    \/ call'[c].attempt # call[c].attempt))
                => \/ call'[c].pc = "done"
                   \/ /\ call'[c].pc \in {"send", "sleep"}
                      /\ Remaining(c)' < Remaining(c)
                      /\ Remaining(c)' >= 0]_vars
    /\ \A c \in Calls :
          (call[c].pc \in {"acquire", "send", "sleep"}) ~> (call[c].pc = "done")

\* A call answered 429, then 401, then 503 has used its three attempts and
\* is over.
C32_Witness ==
    \E c \in Calls :
        /\ max_retries = MaxRetries
        /\ obs[c].hist = <<"429", "401", "5xx">>
        /\ obs[c].sleeps = 1 /\ obs[c].refreshes = 1
        /\ call[c].pc = "done"

\* ---------------------------------------------------------- test_connection
\* C33: test_connection() does not raise when its query fails with an
\* AuthenticationError, a RateLimitError or a LinearAPIError: it reports
\* success = false with the text of the error.  It reports success = true
\* only when the query returned a payload.  Only a cancellation gets through.
C33_TestConnectionReports ==
    \A c \in Calls :
        report[c] # NoReport
            => /\ call[c].pc = "done"
               /\ call[c].error \in Taxonomy
                    => /\ report[c].raised = "none"
                       /\ report[c].returned
                       /\ report[c].success = FALSE
                       /\ report[c].error = call[c].msg
                       /\ report[c].message = "Connection failed"
               /\ report[c].success = TRUE
                    => /\ call[c].error = "none"
                       /\ call[c].result \in ViewerPayloads
                       /\ report[c].returned
                       /\ report[c].raised = "none"
               /\ report[c].raised # "none"
                    => /\ report[c].raised = "CancelledError"
                       /\ obs[c].cancelled # "no"

\* The query was answered 429 until its attempts ran out, and
\* test_connection() reported the failure.
C33_Witness ==
    \E c \in Calls :
        /\ max_retries = MaxRetries
        /\ call[c].error = "RateLimitError"
        /\ obs[c].sends = MaxRetries + 1
        /\ report[c].returned /\ report[c].success = FALSE
        /\ report[c].error = "Rate limit exceeded"
        /\ report[c].raised = "none"

\* -------------------------------------------------------------- team switch
\* The teams get_teams() returned to the running command.
Fetched == IF call["A"].error = "none" THEN GetTeams(call["A"].result) ELSE << >>
SomeMatch ==
    \E i \in 1..Len(Fetched) : Matches(Fetched[i], command.team_identifier)

\* C34: `team switch` stores a default team only when get_teams() returned a
\* team whose key or id is the identifier given, and then default_team_key
\* and default_team_id become the key and the id of one such team; when no
\* team matches or get_teams() raised, the command aborts and the
\* configuration stays as it was.
C34_SwitchStoresOneTeam ==
    [][/\ (command.status = "validating" /\ command'.status # "validating")
            => IF SomeMatch
               THEN /\ command'.status = "switched"
                    /\ \E i \in 1..Len(Fetched) :
                          /\ Matches(Fetched[i], command.team_identifier)
                          /\ config'.default_team_key = Fetched[i].key
                          /\ config'.default_team_id = Fetched[i].id
               ELSE /\ command'.status = "aborted"
                    /\ config' = config
       /\ config' # config
            => /\ command.status = "validating" /\ command'.status = "switched"
               /\ SomeMatch]_vars

\* The user gave the id of Ops: default_team_key and default_team_id
\* are those of Ops.
C34_Witness ==
    /\ command = [team_identifier |-> "t2", status |-> "switched"]
    /\ config = [default_team_key |-> "OPS", default_team_id |-> "t2"]

====
